---- MODULE Spec2Model ----
(***************************************************************************)
(* Model of the authentication core of the patient-monitor backend         *)
(* (monitor/backend/src/auth.rs): the users table, the signup, login,      *)
(* verify and "me" handlers, the JWT token service and the bearer-header   *)
(* helper; and of the input validation functions                           *)
(* (monitor/backend/src/validation.rs).  Requests are handled              *)
(* concurrently; a handler is split into actions at its .await points on   *)
(* the database.                                                           *)
(*                                                                         *)
(* Strings are TLA+ strings; Len, SubSeq and \o act on them character by   *)
(* character.  A JWT is modelled by its decoded parts (header algorithm,  *)
(* claims, the key its signature was made with) instead of its base64      *)
(* text; a bcrypt digest by its parts (salt, the hashed key material).     *)
(*                                                                         *)
(* Library behaviour the handlers rely on:                                 *)
(*  - jsonwebtoken: Validation::default() accepts HS256 only and rejects   *)
(*    an exp only when exp < now - leeway, with leeway = 60 seconds;       *)
(*  - tokio_postgres: the Display of a failed statement is "db error: "    *)
(*    followed by the server message, which for a unique violation names   *)
(*    the index (users_username_key, users_email_key) and, in drivers      *)
(*    that print it, the DETAIL line quoting the offending value;          *)
(*  - once_cell: sync::Lazy runs its closure in the first thread that       *)
(*    dereferences the cell, while every other thread that dereferences    *)
(*    it waits for the value;                                              *)
(*  - PostgreSQL: a SERIAL value is drawn by every executed INSERT, also   *)
(*    by one that fails; unique indexes are checked in creation order.     *)
(*                                                                         *)
(* Specifications:                                                         *)
(*  Spec           signup and login on a changing table;                   *)
(*  SpecSignup     signup alone;                                           *)
(*  SpecToken      verify, me and extract_user_from_request as time        *)
(*                 passes, on a fixed table;                               *)
(*  SpecMint       login as time passes, for every kind of validity window;*)
(*  SpecProfile    verify and me while rows are changed from outside;      *)
(*  SpecAll        every route together;                                   *)
(*  SpecConfig     login and verify while threads race for the first use   *)
(*                 of the Lazy cells and the environment is changed;       *)
(*  SpecValidation the pure functions of validation.rs applied to inputs.  *)
(***************************************************************************)
EXTENDS Integers, Sequences, FiniteSets, TLC

VARIABLES
    users,                  \* rows of the users table
    users_id_seq,           \* last value handed out by the SERIAL sequence of users.id
    env,                    \* process environment: JWT_SECRET, TOKEN_EXPIRATION_HOURS
    JWT_SECRET,             \* Lazy<String> cell
    TOKEN_EXPIRATION_HOURS, \* Lazy<i64> cell
    now,                    \* Utc::now().timestamp()
    pc,                     \* per request slot: position of the handler
    req,                    \* per request slot: the request being served
    local,                  \* per request slot: handler locals that live across an .await
                            \* (seq0: the sequence value when the handler started, history)
    resp,                   \* per request slot: the response sent
    ghost                   \* per request slot: which path the handler took (history)

vars == <<users, users_id_seq, env, JWT_SECRET, TOKEN_EXPIRATION_HOURS,
          now, pc, req, local, resp, ghost>>

-----------------------------------------------------------------------------
(* Bounds *)

\* cap on the values drawn from the SERIAL sequence of users.id
MaxSeq == 3
\* clock reading at process start
StartTime == 1000000

\* width of usize in the model (64 in the build): every clock reading and
\* every expiry of a sane window is below 2^UsizeBits
UsizeBits == 29

\* requests served at the same time
Procs == {"r1", "r2"}

-----------------------------------------------------------------------------
(* String helpers *)

\* str::contains(needle)
Contains(h, n) ==
    \E i \in 1..(Len(h) - Len(n) + 1) : SubSeq(h, i, i + Len(n) - 1) = n

\* str::starts_with(prefix)
starts_with(s, prefix) ==
    Len(s) >= Len(prefix) /\ SubSeq(s, 1, Len(prefix)) = prefix

\* str::chars()
Chars(s) == {SubSeq(s, i, i) : i \in 1..Len(s)}

UpperLetters == <<"A","B","C","D","E","F","G","H","I","J","K","L","M",
                  "N","O","P","Q","R","S","T","U","V","W","X","Y","Z">>
LowerLetters == <<"a","b","c","d","e","f","g","h","i","j","k","l","m",
                  "n","o","p","q","r","s","t","u","v","w","x","y","z">>
DigitChars == <<"0","1","2","3","4","5","6","7","8","9">>

\* char::is_uppercase, char::is_numeric (on the ASCII range the inputs use)
is_uppercase(c) == \E i \in 1..26 : UpperLetters[i] = c
is_numeric(c) == \E i \in 1..10 : DigitChars[i] = c

LowerChar(c) ==
    IF is_uppercase(c)
    THEN LowerLetters[CHOOSE i \in 1..26 : UpperLetters[i] = c]
    ELSE c

\* str::to_lowercase
RECURSIVE to_lowercase(_)
to_lowercase(s) ==
    IF Len(s) = 0 THEN ""
    ELSE LowerChar(SubSeq(s, 1, 1)) \o to_lowercase(SubSeq(s, 2, Len(s)))

\* characters UTF-8 encodes in one byte (the printable ones the inputs use)
Ascii ==
    " !\"#$%&'()*+,-./0123456789:;<=>?@ABCDEFGHIJKLMNOPQRSTUVWXYZ[]^_abcdefghijklmnopqrstuvwxyz{|}~"

\* bytes of a character in UTF-8; the other characters of the inputs are
\* accented Latin letters, two bytes each
AsciiChars == Chars(Ascii)
Utf8Width(c) == IF c \in AsciiChars THEN 1 ELSE 2

\* str::len: the length in bytes
RECURSIVE len(_)
len(s) == IF Len(s) = 0 THEN 0 ELSE Utf8Width(SubSeq(s, 1, 1)) + len(SubSeq(s, 2, Len(s)))

\* str::replace(from, to) for a one-character pattern
RECURSIVE replace(_, _, _)
replace(s, from, to) ==
    IF Len(s) = 0 THEN ""
    ELSE (IF SubSeq(s, 1, 1) = from THEN to ELSE SubSeq(s, 1, 1))
            \o replace(SubSeq(s, 2, Len(s)), from, to)

\* i32::to_string for the non-negative ids a SERIAL column produces
RECURSIVE to_string(_)
to_string(n) ==
    IF n < 10 THEN DigitChars[n + 1]
    ELSE to_string(n \div 10) \o DigitChars[(n % 10) + 1]

DigitOf(c) == (CHOOSE i \in 1..10 : DigitChars[i] = c) - 1

RECURSIVE DecValue(_)
DecValue(s) ==
    IF Len(s) = 0 THEN 0
    ELSE 10 * DecValue(SubSeq(s, 1, Len(s) - 1)) + DigitOf(SubSeq(s, Len(s), Len(s)))

\* str::parse::<i64>(): optional sign, then at least one decimal digit
parse_i64(s) ==
    LET signed == Len(s) > 0 /\ SubSeq(s, 1, 1) \in {"-", "+"}
        digits == IF signed THEN SubSeq(s, 2, Len(s)) ELSE s
        neg    == signed /\ SubSeq(s, 1, 1) = "-"
    IN  IF Len(digits) > 0 /\ \A c \in Chars(digits) : is_numeric(c)
        THEN [ok |-> TRUE, val |-> IF neg THEN 0 - DecValue(digits) ELSE DecValue(digits)]
        ELSE [ok |-> FALSE, val |-> 0]

-----------------------------------------------------------------------------
(* Cadre *)

CadreNames == {"physician", "nurse", "physiotherapist", "caretaker"}

\* a Cadre::from_str that matches the text as typed
Cadre_from_str_CaseSensitive(s) ==
    IF s \in CadreNames
    THEN [ok |-> TRUE, val |-> s, err |-> ""]
    ELSE [ok |-> FALSE, val |-> "", err |-> "Unknown cadre: " \o s]

\* impl FromStr for Cadre
Cadre_from_str(s) ==
    IF to_lowercase(s) \in CadreNames
    THEN [ok |-> TRUE, val |-> to_lowercase(s), err |-> ""]
    ELSE [ok |-> FALSE, val |-> "", err |-> "Unknown cadre: " \o s]

-----------------------------------------------------------------------------
(* Input validation (monitor/backend/src/validation.rs) *)

\* Result<T, ValidationError>: the Ok value, or the variant and its detail
ValidationOk(val) == [ok |-> TRUE, val |-> val, err |-> "", msg |-> ""]
ValidationError(variant, msg) == [ok |-> FALSE, val |-> "", err |-> variant, msg |-> msg]

\* the character class [a-zA-Z0-9_-] of USERNAME_REGEX
UsernameClass(c) ==
    \/ \E i \in 1..26 : UpperLetters[i] = c \/ LowerLetters[i] = c
    \/ is_numeric(c)
    \/ c \in {"_", "-"}

\* USERNAME_REGEX.is_match: ^[a-zA-Z0-9_-]{3,30}$ ($ matches at the end of
\* the text only)
USERNAME_REGEX_is_match(s) ==
    /\ Len(s) >= 3 /\ Len(s) <= 30
    /\ \A i \in 1..Len(s) : UsernameClass(SubSeq(s, i, i))

\* a validate_username that tests the length before the empty string
validate_username_LengthFirst(username) ==
    IF len(username) < 3 THEN
        ValidationError("TooShort", "Username must be at least 3 characters")
    ELSE IF len(username) = 0 THEN
        ValidationError("InvalidUsername", "Username cannot be empty")
    ELSE IF len(username) > 30 THEN
        ValidationError("TooLong", "Username must be at most 30 characters")
    ELSE IF ~USERNAME_REGEX_is_match(username) THEN
        ValidationError("InvalidUsername",
            "Username can only contain letters, numbers, underscore, and hyphen")
    ELSE ValidationOk("")

\* validate_username
validate_username(username) ==
    IF len(username) = 0 THEN
        ValidationError("InvalidUsername", "Username cannot be empty")
    ELSE IF len(username) < 3 THEN
        ValidationError("TooShort", "Username must be at least 3 characters")
    ELSE IF len(username) > 30 THEN
        ValidationError("TooLong", "Username must be at most 30 characters")
    ELSE IF ~USERNAME_REGEX_is_match(username) THEN
        ValidationError("InvalidUsername",
            "Username can only contain letters, numbers, underscore, and hyphen")
    ELSE ValidationOk("")

\* the alternatives of SQL_INJECTION_REGEX and of XSS_REGEX
SqlKeywords ==
    {"union", "select", "insert", "update", "delete", "drop", "create", "alter",
     "exec", "execute", "script", "javascript", "<script"}
XssPatterns ==
    {"<script", "javascript:", "onerror=", "onload=", "onclick=", "<iframe",
     "<object", "<embed"}

\* Regex::is_match of an unanchored, case-insensitive alternation of literals
is_match(alternatives, input) ==
    \E k \in alternatives : Contains(to_lowercase(input), k)

\* check_sql_injection
check_sql_injection(input) ==
    IF is_match(SqlKeywords, input)
    THEN ValidationError("PotentialSQLInjection", "Input contains suspicious SQL keywords")
    ELSE ValidationOk("")

\* check_xss
check_xss(input) ==
    IF is_match(XssPatterns, input)
    THEN ValidationError("PotentialXSS", "Input contains suspicious script patterns")
    ELSE ValidationOk("")

\* a sanitize_html that escapes the ampersand after the other characters
sanitize_html_AmpersandLast(input) ==
    replace(replace(replace(replace(replace(replace(input,
        "<", "&lt;"), ">", "&gt;"), "\"", "&quot;"), "'", "&#x27;"), "/", "&#x2F;"),
        "&", "&amp;")

\* sanitize_html: six replace passes, the ampersand first
sanitize_html(input) ==
    replace(replace(replace(replace(replace(replace(input,
        "&", "&amp;"), "<", "&lt;"), ">", "&gt;"), "\"", "&quot;"), "'", "&#x27;"),
        "/", "&#x2F;")

\* a validate_text_input that escapes first and screens the escaped text
validate_text_input_SanitizeFirst(input, field_name) ==
    IF ~check_sql_injection(sanitize_html(input)).ok
    THEN check_sql_injection(sanitize_html(input))
    ELSE IF ~check_xss(sanitize_html(input)).ok THEN check_xss(sanitize_html(input))
    ELSE ValidationOk(sanitize_html(input))

\* validate_text_input: the ? of each check returns its error
validate_text_input(input, field_name) ==
    IF ~check_sql_injection(input).ok THEN check_sql_injection(input)
    ELSE IF ~check_xss(input).ok THEN check_xss(input)
    ELSE ValidationOk(sanitize_html(input))

\* the {} of format! for an integer
Display(n) == IF n < 0 THEN "-" \o to_string(0 - n) ELSE to_string(n)

\* validate_motion_level: a percentage
validate_motion_level(level) ==
    IF ~(0 <= level /\ level <= 100)
    THEN ValidationError("InvalidRange",
            "Motion level " \o Display(level) \o " is outside valid range (0-100)")
    ELSE ValidationOk("")

\* validate_sound_level: a 10-bit ADC reading
validate_sound_level(level) ==
    IF ~(0 <= level /\ level <= 1023)
    THEN ValidationError("InvalidRange",
            "Sound level " \o Display(level) \o " is outside valid range (0-1023)")
    ELSE ValidationOk("")

\* validate_limit: Ok carries the limit
validate_limit(limit, max_limit) ==
    IF limit = 0 THEN
        ValidationError("InvalidRange", "Limit must be greater than 0")
    ELSE IF limit > max_limit THEN
        ValidationError("InvalidRange",
            "Limit " \o Display(limit) \o " exceeds maximum of " \o Display(max_limit))
    ELSE [ValidationOk("") EXCEPT !.val = limit]

\* a validate_time_range_minutes that lets a range of zero minutes pass
validate_time_range_minutes_ZeroAllowed(minutes) ==
    IF minutes < 0 THEN
        ValidationError("InvalidRange", "Time range must be positive")
    ELSE IF minutes > 10080 THEN
        ValidationError("InvalidRange", "Time range cannot exceed 7 days (10080 minutes)")
    ELSE ValidationOk("")

\* validate_time_range_minutes: at most 7 days
validate_time_range_minutes(minutes) ==
    IF minutes <= 0 THEN
        ValidationError("InvalidRange", "Time range must be positive")
    ELSE IF minutes > 10080 THEN
        ValidationError("InvalidRange", "Time range cannot exceed 7 days (10080 minutes)")
    ELSE ValidationOk("")

-----------------------------------------------------------------------------
(* Password hashing: bcrypt *)

DEFAULT_COST == 12
BcryptMaxBytes == 72
Salts == {"Nq3Yw0bVt1FzLr8KxP2uJe"}

\* bcrypt keys the hash with at most the first 72 bytes of the password
BcryptKey(password) ==
    IF Len(password) > BcryptMaxBytes THEN SubSeq(password, 1, BcryptMaxBytes) ELSE password

\* hash_password: a digest carrying the cost, a random salt and the hash
hash_password(password, salt) ==
    [wellformed |-> TRUE, cost |-> DEFAULT_COST, salt |-> salt, key |-> BcryptKey(password)]

\* a password_hash column value that is not a bcrypt digest
MalformedDigest == [wellformed |-> FALSE, cost |-> 0, salt |-> "", key |-> ""]

\* verify_password: Err on a malformed digest, else Ok(match)
verify_password(password, digest) ==
    IF ~digest.wellformed
    THEN [ok |-> FALSE, val |-> FALSE]
    ELSE [ok |-> TRUE, val |-> (BcryptKey(password) = digest.key)]

-----------------------------------------------------------------------------
(* Token service *)

\* a Lazy cell before its first deref
Uninit(placeholder) == [init |-> FALSE, val |-> placeholder]
DefaultSecret == "development_only_secret_replace_in_production"
DefaultHours == 24
SecondsPerHour == 3600

\* Lazy::new closure of JWT_SECRET
ResolveSecret(e) ==
    IF e.JWT_SECRET.set THEN e.JWT_SECRET.val ELSE DefaultSecret

\* Lazy::new closure of TOKEN_EXPIRATION_HOURS
ResolveHours(e) ==
    IF e.TOKEN_EXPIRATION_HOURS.set /\ parse_i64(e.TOKEN_EXPIRATION_HOURS.val).ok
    THEN parse_i64(e.TOKEN_EXPIRATION_HOURS.val).val
    ELSE DefaultHours

\* Lazy deref: the value of a cell, initialising it on first use
Force(cell, resolved) == IF cell.init THEN cell ELSE [init |-> TRUE, val |-> resolved]

\* get_jwt_secret, on the cell as it is after the deref
get_jwt_secret == Force(JWT_SECRET, ResolveSecret(env)).val

\* the cast "as usize" of an i64: two's complement, a negative value wraps
as_usize(n) == n % (2 ^ UsizeBits)

\* a generate_token that fills the username claim from the wrong field
generate_token_UsernameFromEmail(user, t, hours, secret) ==
    [wellformed |-> TRUE,
     alg    |-> "HS256",
     claims |-> [sub      |-> to_string(user.id),
                 username |-> user.email,
                 cadre    |-> user.cadre,
                 exp      |-> as_usize(t + hours * SecondsPerHour),
                 iat      |-> as_usize(t)],
     key    |-> secret]

\* generate_token: the token minted for a user row at clock reading t
generate_token(user, t, hours, secret) ==
    [wellformed |-> TRUE,
     alg    |-> "HS256",
     claims |-> [sub      |-> to_string(user.id),
                 username |-> user.username,
                 cadre    |-> user.cadre,
                 exp      |-> as_usize(t + hours * SecondsPerHour),
                 iat      |-> as_usize(t)],
     key    |-> secret]

NoClaims == [sub |-> "", username |-> "", cadre |-> "", exp |-> 0, iat |-> 0]

\* Validation::default(): HS256 only, exp validated with 60 s of leeway
Validation_default == [algorithms |-> {"HS256"}, validate_exp |-> TRUE, leeway |-> 60]

\* a verify_token that decodes without checking the signature
verify_token_NoSignatureCheck(token, t, secret) ==
    IF ~token.wellformed THEN
        [ok |-> FALSE, claims |-> NoClaims, err |-> "InvalidToken"]
    ELSE IF token.alg \notin Validation_default.algorithms THEN
        [ok |-> FALSE, claims |-> NoClaims, err |-> "InvalidAlgorithm"]
    ELSE IF Validation_default.validate_exp
            /\ token.claims.exp < t - Validation_default.leeway THEN
        [ok |-> FALSE, claims |-> NoClaims, err |-> "ExpiredSignature"]
    ELSE [ok |-> TRUE, claims |-> token.claims, err |-> ""]

\* verify_token: decode(token, secret, Validation::default()) at clock reading t
verify_token(token, t, secret) ==
    IF ~token.wellformed THEN
        [ok |-> FALSE, claims |-> NoClaims, err |-> "InvalidToken"]
    ELSE IF token.alg \notin Validation_default.algorithms THEN
        [ok |-> FALSE, claims |-> NoClaims, err |-> "InvalidAlgorithm"]
    ELSE IF token.key # secret THEN
        [ok |-> FALSE, claims |-> NoClaims, err |-> "InvalidSignature"]
    ELSE IF Validation_default.validate_exp
            /\ token.claims.exp < t - Validation_default.leeway THEN
        [ok |-> FALSE, claims |-> NoClaims, err |-> "ExpiredSignature"]
    ELSE [ok |-> TRUE, claims |-> token.claims, err |-> ""]

\* the two Lazy statics and their closures
LazyCells == {"JWT_SECRET", "TOKEN_EXPIRATION_HOURS"}
Closure(cell, e) == IF cell = "JWT_SECRET" THEN ResolveSecret(e) ELSE ResolveHours(e)
Cell(cell) == IF cell = "JWT_SECRET" THEN JWT_SECRET ELSE TOKEN_EXPIRATION_HOURS

\* a thread is inside the closure of the cell
Running(cell) == \E q \in Procs : pc[q] = "lazy_init" /\ local[q].cell = cell

\* no thread is inside a closure: a deref does not have to wait
Unblocked == \A cell \in LazyCells : ~Running(cell)

-----------------------------------------------------------------------------
(* The users table and the persistence engine *)

\* column widths declared by init_auth_tables
UsernameWidth == 50
FullnameWidth == 100
EmailWidth == 100
CadreWidth == 50

\* Database::get_client: a pooled connection, or a pool/connection error
get_client ==
    {[ok |-> TRUE, err |-> ""], [ok |-> FALSE, err |-> "connection refused"]}

\* a statement that fails in transit instead of being executed
TransientErrors == {"connection closed"}

\* Display of the tokio_postgres error of a unique violation; newer drivers
\* append the server's DETAIL line, which quotes the offending value
UniqueViolationText(column, value, detail) ==
    "db error: ERROR: duplicate key value violates unique constraint \"users_"
        \o column \o "_key\""
        \o (IF detail
            THEN "\nDETAIL: Key (" \o column \o ")=(" \o value \o ") already exists."
            ELSE "")

ValueTooLongText(width) ==
    "db error: ERROR: value too long for type character varying(" \o to_string(width) \o ")"

\* the row an INSERT ... RETURNING of this signup produces
NewRow(id, signup, password_hash, t) ==
    [id |-> id, username |-> signup.username, fullname |-> signup.fullname,
     email |-> signup.email, cadre |-> signup.cadre,
     password_hash |-> password_hash, created_at |-> t]

\* a users table whose username column lost its UNIQUE constraint
ViolatedColumn_EmailOnly(table, signup) ==
    IF \E u \in table : u.email = signup.email THEN "email" ELSE ""

\* the column whose unique index an insert of this signup violates first
\* (users_username_key is checked before users_email_key), "" if none
ViolatedColumn(table, signup) ==
    IF \E u \in table : u.username = signup.username THEN "username"
    ELSE IF \E u \in table : u.email = signup.email THEN "email"
    ELSE ""

\* outcomes of the INSERT of create_user against the table as it is now;
\* executed tells whether the server ran the statement (and drew an id)
InsertOutcomes(table, signup) ==
    LET col == ViolatedColumn(table, signup)
        failed(text) == [kind |-> "error", col |-> "", text |-> text, executed |-> TRUE]
        server ==
            IF Len(signup.username) > UsernameWidth THEN
                {failed(ValueTooLongText(UsernameWidth))}
            ELSE IF Len(signup.fullname) > FullnameWidth THEN
                {failed(ValueTooLongText(FullnameWidth))}
            ELSE IF Len(signup.email) > EmailWidth THEN
                {failed(ValueTooLongText(EmailWidth))}
            ELSE IF Len(signup.cadre) > CadreWidth THEN
                {failed(ValueTooLongText(CadreWidth))}
            ELSE IF col # "" THEN
                {[kind |-> "unique", col |-> col, executed |-> TRUE,
                  text |-> UniqueViolationText(col, signup[col], d)] : d \in BOOLEAN}
            ELSE {[kind |-> "ok", col |-> "", text |-> "", executed |-> TRUE]}
    IN  server \cup {[kind |-> "error", col |-> "", text |-> e, executed |-> FALSE]
                        : e \in TransientErrors}

\* the map_err closure of create_user
MapInsertError(text) ==
    IF Contains(text, "unique") THEN
        IF Contains(text, "username") THEN "Username already exists"
        ELSE IF Contains(text, "email") THEN "Email already exists"
        ELSE "User already exists"
    ELSE "Database error: " \o text

\* the Option<User> of a lookup that found nothing
NoUser ==
    [id |-> 0, username |-> "", fullname |-> "", email |-> "", cadre |-> "",
     password_hash |-> MalformedDigest, created_at |-> 0]

\* find_user_by_username: Err (no connection, or the query failed), Ok(None)
\* or Ok(Some(row)) for the row whose username matches exactly
find_user_by_username(table, username) ==
    {[ok |-> FALSE, found |-> FALSE, user |-> NoUser, err |-> e]
        : e \in {g.err : g \in {c \in get_client : ~c.ok}} \cup TransientErrors}
    \cup
    (IF \E u \in table : u.username = username
     THEN {[ok |-> TRUE, found |-> TRUE, user |-> u, err |-> ""]
            : u \in {v \in table : v.username = username}}
     ELSE {[ok |-> TRUE, found |-> FALSE, user |-> NoUser, err |-> ""]})

-----------------------------------------------------------------------------
(* Responses *)

ErrorResponse(status, message) == [status |-> status, body |-> [error |-> message]]

\* a UserInfo that serialises every column of the row
UserInfo_WithHash(user) ==
    [id |-> user.id, username |-> user.username, fullname |-> user.fullname,
     email |-> user.email, cadre |-> user.cadre, password_hash |-> user.password_hash]

\* UserInfo: the public fields of a row
UserInfo(user) ==
    [id |-> user.id, username |-> user.username, fullname |-> user.fullname,
     email |-> user.email, cadre |-> user.cadre]

NoReq == [kind |-> "none"]
NoLocal == [kind |-> "none"]
NoResp == [status |-> 0, body |-> [error |-> ""]]
NoGhost == [path |-> "none", dberr |-> "", col |-> "", at |-> 0, verr |-> "", seq0 |-> 0]
NoToken == [wellformed |-> FALSE, alg |-> "", claims |-> NoClaims, key |-> ""]

-----------------------------------------------------------------------------
(* Inputs *)

SignupRequest(username, email, cadre, password) ==
    [kind |-> "signup", fullname |-> "Full Name", username |-> username,
     email |-> email, cadre |-> cadre, password |-> password]

LongUsername == "u23456789012345678901234567890123456789012345678901"

\* a username of 31 characters, which fits the VARCHAR(50) column
Username31 == "u234567890123456789012345678901"

SignupBodies ==
    {SignupRequest(u, e, "Nurse", "Secret123")
        : u \in {"alice", "bob"}, e \in {"a@x.org", "username@x.org"}}
    \cup
    {SignupRequest("ab", "b@x.org", "nurse", "Secret123"),
     SignupRequest("bob", "b@x.org", "nurse", "Short1"),
     SignupRequest("bob", "b@x.org", "nurse", "secret123"),
     SignupRequest("bob", "b@x.org", "nurse", "SecretABC"),
     SignupRequest("bob", "b@x.org", "janitor", "Secret123"),
     SignupRequest(LongUsername, "b@x.org", "nurse", "Secret123")}

\* signups that differ in the shape of the username only
UsernameBodies ==
    {SignupRequest(u, "d@x.org", "nurse", "Secret123")
        : u \in {"alice", "ab", Username31, "user@name"}}

LoginRequest(username, password) ==
    [kind |-> "login", username |-> username, password |-> password]

LoginBodies ==
    {LoginRequest("alice", "Secret123"), LoginRequest("alice", "Other456A"),
     LoginRequest("carol", "Secret123"), LoginRequest("nobody", "Secret123")}

\* a row that was in the table before this process started, whose
\* password_hash column does not hold a bcrypt digest
LegacyRow ==
    [id |-> 1, username |-> "carol", fullname |-> "Carol", email |-> "c@x.org",
     cadre |-> "physician", password_hash |-> MalformedDigest, created_at |-> 0]

EnvVar(set, val) == [set |-> set, val |-> val]

Environments ==
    [JWT_SECRET : {EnvVar(FALSE, ""), EnvVar(TRUE, "prod-secret")},
     TOKEN_EXPIRATION_HOURS : {EnvVar(FALSE, ""), EnvVar(TRUE, "1")}]

\* environments that differ in the validity window: not set, a number of
\* hours, text that is not a number, and a window that reaches back before
\* the epoch
MintEnvironments ==
    [JWT_SECRET : {EnvVar(FALSE, "")},
     TOKEN_EXPIRATION_HOURS :
        {EnvVar(FALSE, ""), EnvVar(TRUE, "2"), EnvVar(TRUE, "abc"), EnvVar(TRUE, "-300")}]

\* free text handed to validate_text_input
TextInputs ==
    {"", "normal text", "A & B", "1 OR 1=1", "a/b <b>Tom's</b> \"quoted\"",
     "SELECT * FROM users", "'; DROP TABLE users--", "description",
     "<script>alert('xss')</script>", "javascript:alert(1)", "JavaScript:alert(1)",
     "<img onerror='alert(1)'>", "<IFRAME src=x>", "x onload=y", "<embed>"}

\* text handed to sanitize_html: the cases of test_sanitize_html, text that
\* already holds entities, and text with every special character
HtmlInputs ==
    {"", "plain text", "<script>", "A & B", "\"quoted\"", "&amp;", "&lt;b&gt;", "&&",
     "a/b <b>Tom's</b> \"quoted\"", "</'\">&", "1 < 2 > 0", "é/è", "#x27;"}

\* i32 readings handed to validate_motion_level and validate_sound_level: the
\* cases of test_validate_motion_level, the ends of both ranges and of i32
LevelInputs == {-2147483647, -1, 0, 1, 50, 100, 101, 1023, 1024, 2147483647}

\* i64 minutes handed to validate_time_range_minutes
MinuteInputs == {-2147483647, -1, 0, 1, 60, 10079, 10080, 10081, 2147483647}

\* usize limits and maxima handed to validate_limit
LimitInputs == {0, 1, 99, 100, 101, 2 ^ UsizeBits - 1}
MaxLimitInputs == {0, 1, 100}

\* usernames handed to validate_username
UsernameInputs ==
    {"", "a", "ab", "a@", "@", "abc", "john_doe", "user123", "a-b_C9", "user@name",
     "ab cd", "u23456789012345678901234567890", Username31,
     "u2345678901234567890123456789@1", LongUsername,
     "éa", "éé", "renée"}

\* clock readings after StartTime: the boundary points around the expiry of a
\* token minted at StartTime
ClockOffsets ==
    {-1, 0, 1, Validation_default.leeway, Validation_default.leeway + 1}
ClockPoints ==
    {StartTime + ResolveHours(env) * SecondsPerHour + d : d \in ClockOffsets}

-----------------------------------------------------------------------------
(* Initial state *)

\* the slots are idle and the Lazy cells untouched when the server starts
InitProcess ==
    /\ JWT_SECRET = Uninit("")
    /\ TOKEN_EXPIRATION_HOURS = Uninit(0)
    /\ now = StartTime
    /\ pc = [p \in Procs |-> "idle"]
    /\ req = [p \in Procs |-> NoReq]
    /\ local = [p \in Procs |-> NoLocal]
    /\ resp = [p \in Procs |-> NoResp]
    /\ ghost = [p \in Procs |-> NoGhost]

\* a development server on a new or an old table
Init ==
    /\ InitProcess
    /\ users \in {{}, {LegacyRow}}
    /\ users_id_seq = Cardinality(users)
    /\ env = [JWT_SECRET |-> EnvVar(FALSE, ""), TOKEN_EXPIRATION_HOURS |-> EnvVar(FALSE, "")]

\* a row written by an earlier signup of alice
AliceRow ==
    [id |-> 12, username |-> "alice", fullname |-> "Full Name", email |-> "a@x.org",
     cadre |-> "Nurse",
     password_hash |-> hash_password("Secret123", CHOOSE x \in Salts : TRUE),
     created_at |-> 0]

\* a server in any environment on a table with registered users
InitToken ==
    /\ InitProcess
    /\ users = {LegacyRow, AliceRow}
    /\ users_id_seq = AliceRow.id
    /\ env \in Environments

\* a server in an environment with any validity window, on a table with
\* registered users
InitMint ==
    /\ InitProcess
    /\ users = {LegacyRow, AliceRow}
    /\ users_id_seq = AliceRow.id
    /\ env \in MintEnvironments

\* a development server on a table with registered users
InitProfile ==
    /\ InitProcess
    /\ users = {LegacyRow, AliceRow}
    /\ users_id_seq = AliceRow.id
    /\ env = [JWT_SECRET |-> EnvVar(FALSE, ""), TOKEN_EXPIRATION_HOURS |-> EnvVar(FALSE, "")]

\* the handler of slot p returns: its response is sent
Respond(p, response, g) ==
    /\ pc' = [pc EXCEPT ![p] = "done"]
    /\ resp' = [resp EXCEPT ![p] = response]
    /\ ghost' = [ghost EXCEPT ![p] = g]
    /\ local' = [local EXCEPT ![p] = NoLocal]

Path(tag) == [NoGhost EXCEPT !.path = tag, !.at = now]

-----------------------------------------------------------------------------
(* POST /api/auth/signup *)

\* a signup_handler whose password test forgets the digit
signup_request_UppercaseOnly(p, bodies) ==
    /\ pc[p] = "idle"
    /\ \E body \in bodies, salt \in Salts :
        /\ req' = [req EXCEPT ![p] = body]
        /\ IF len(body.username) < 3 THEN
                Respond(p, ErrorResponse(400, "Username must be at least 3 characters"),
                        Path("username_short"))
           ELSE IF len(body.password) < 8 THEN
                Respond(p, ErrorResponse(400, "Password must be at least 8 characters"),
                        Path("password_short"))
           ELSE IF ~(\E c \in Chars(body.password) : is_uppercase(c)) THEN
                Respond(p, ErrorResponse(400,
                        "Password must contain at least one uppercase letter and one number"),
                        Path("password_weak"))
           ELSE IF ~Cadre_from_str(body.cadre).ok THEN
                Respond(p, ErrorResponse(400, Cadre_from_str(body.cadre).err), Path("cadre"))
           ELSE /\ pc' = [pc EXCEPT ![p] = "create_user_conn"]
                /\ local' = [local EXCEPT ![p] =
                        [kind |-> "create_user",
                         password_hash |-> hash_password(body.password, salt),
                         seq0 |-> users_id_seq]]
                /\ UNCHANGED <<resp, ghost>>
    /\ UNCHANGED <<users, users_id_seq, env, JWT_SECRET, TOKEN_EXPIRATION_HOURS,
                   now>>

\* signup_handler up to the first .await of create_user: input validation,
\* cadre parsing and password hashing
signup_request(p, bodies) ==
    /\ pc[p] = "idle"
    /\ \E body \in bodies, salt \in Salts :
        /\ req' = [req EXCEPT ![p] = body]
        /\ IF len(body.username) < 3 THEN
                Respond(p, ErrorResponse(400, "Username must be at least 3 characters"),
                        Path("username_short"))
           ELSE IF len(body.password) < 8 THEN
                Respond(p, ErrorResponse(400, "Password must be at least 8 characters"),
                        Path("password_short"))
           ELSE IF ~(\E c \in Chars(body.password) : is_uppercase(c))
                   \/ ~(\E c \in Chars(body.password) : is_numeric(c)) THEN
                Respond(p, ErrorResponse(400,
                        "Password must contain at least one uppercase letter and one number"),
                        Path("password_weak"))
           ELSE IF ~Cadre_from_str(body.cadre).ok THEN
                Respond(p, ErrorResponse(400, Cadre_from_str(body.cadre).err), Path("cadre"))
           ELSE /\ pc' = [pc EXCEPT ![p] = "create_user_conn"]
                /\ local' = [local EXCEPT ![p] =
                        [kind |-> "create_user",
                         password_hash |-> hash_password(body.password, salt),
                         seq0 |-> users_id_seq]]
                /\ UNCHANGED <<resp, ghost>>
    /\ UNCHANGED <<users, users_id_seq, env, JWT_SECRET, TOKEN_EXPIRATION_HOURS,
                   now>>

\* signup_handler serving the signups of the credential workflows
signup_handler(p) == signup_request(p, SignupBodies)

\* create_user: db.get_client().await
create_user_get_client(p) ==
    /\ pc[p] = "create_user_conn"
    /\ \E c \in get_client :
        IF c.ok
        THEN /\ pc' = [pc EXCEPT ![p] = "create_user_insert"]
             /\ UNCHANGED <<local, resp, ghost>>
        ELSE Respond(p, ErrorResponse(400, "Database connection error: " \o c.err),
                     [Path("conn_error") EXCEPT !.dberr = c.err])
    /\ UNCHANGED <<users, users_id_seq, env, JWT_SECRET, TOKEN_EXPIRATION_HOURS,
                   now, req>>

\* a create_user whose INSERT overwrites the row it conflicts with (ON
\* CONFLICT ... DO UPDATE)
create_user_insert_Upsert(p) ==
    /\ pc[p] = "create_user_insert"
    /\ users_id_seq < MaxSeq
    /\ \E out \in InsertOutcomes(users, req[p]) :
        /\ users_id_seq' = IF out.executed THEN users_id_seq + 1 ELSE users_id_seq
        /\ IF out.kind \in {"ok", "unique"}
           THEN LET user == NewRow(users_id_seq + 1, req[p], local[p].password_hash, now) IN
                /\ users' = {u \in users : u.username # user.username /\ u.email # user.email}
                                \cup {user}
                /\ Respond(p, [status |-> 201,
                               body |-> [message |-> "Account created successfully",
                                         user |-> UserInfo(user)]],
                           [Path("insert_ok") EXCEPT !.seq0 = local[p].seq0])
           ELSE /\ users' = users
                /\ Respond(p, ErrorResponse(400, MapInsertError(out.text)),
                           [Path("insert_error")
                              EXCEPT !.dberr = out.text, !.col = out.col,
                                     !.seq0 = local[p].seq0])
    /\ UNCHANGED <<env, JWT_SECRET, TOKEN_EXPIRATION_HOURS, now, req>>

\* a create_user that asks for a new connection and sends the INSERT again
\* when the statement failed in transit
create_user_insert_RetryTransient(p) ==
    /\ pc[p] = "create_user_insert"
    /\ users_id_seq < MaxSeq
    /\ \E out \in InsertOutcomes(users, req[p]) :
        /\ users_id_seq' = IF out.executed THEN users_id_seq + 1 ELSE users_id_seq
        /\ IF out.kind = "ok"
           THEN LET user == NewRow(users_id_seq + 1, req[p], local[p].password_hash, now) IN
                /\ users' = users \cup {user}
                /\ Respond(p, [status |-> 201,
                               body |-> [message |-> "Account created successfully",
                                         user |-> UserInfo(user)]],
                           [Path("insert_ok") EXCEPT !.seq0 = local[p].seq0])
           ELSE IF ~out.executed
           THEN /\ users' = users
                /\ pc' = [pc EXCEPT ![p] = "create_user_conn"]
                /\ UNCHANGED <<local, resp, ghost>>
           ELSE /\ users' = users
                /\ Respond(p, ErrorResponse(400, MapInsertError(out.text)),
                           [Path(IF out.kind = "unique" THEN "insert_unique" ELSE "insert_error")
                              EXCEPT !.dberr = out.text, !.col = out.col,
                                     !.seq0 = local[p].seq0])
    /\ UNCHANGED <<env, JWT_SECRET, TOKEN_EXPIRATION_HOURS, now, req>>

\* create_user: client.query_one(INSERT ...).await, and the response of signup_handler
create_user_insert(p) ==
    /\ pc[p] = "create_user_insert"
    /\ users_id_seq < MaxSeq
    /\ \E out \in InsertOutcomes(users, req[p]) :
        /\ users_id_seq' = IF out.executed THEN users_id_seq + 1 ELSE users_id_seq
        /\ IF out.kind = "ok"
           THEN LET user == NewRow(users_id_seq + 1, req[p], local[p].password_hash, now) IN
                /\ users' = users \cup {user}
                /\ Respond(p, [status |-> 201,
                               body |-> [message |-> "Account created successfully",
                                         user |-> UserInfo(user)]],
                           [Path("insert_ok") EXCEPT !.seq0 = local[p].seq0])
           ELSE /\ users' = users
                /\ Respond(p, ErrorResponse(400, MapInsertError(out.text)),
                           [Path(IF out.kind = "unique" THEN "insert_unique" ELSE "insert_error")
                              EXCEPT !.dberr = out.text, !.col = out.col,
                                     !.seq0 = local[p].seq0])
    /\ UNCHANGED <<env, JWT_SECRET, TOKEN_EXPIRATION_HOURS, now, req>>

-----------------------------------------------------------------------------
(* POST /api/auth/login *)

\* a login_handler whose Ok(false) arm mints a token as the Ok(true) arm does
login_result_TokenOnMismatch(r, body, t, hours, secret) ==
    IF ~r.ok THEN
        [response |-> ErrorResponse(500, "Internal server error"), path |-> "lookup_error"]
    ELSE IF ~r.found THEN
        [response |-> ErrorResponse(401, "Invalid username or password"), path |-> "user_absent"]
    ELSE IF ~verify_password(body.password, r.user.password_hash).ok THEN
        [response |-> ErrorResponse(500, "Internal server error"), path |-> "digest_error"]
    ELSE
        [response |-> [status |-> 200,
                       body |-> [token |-> generate_token(r.user, t, hours, secret),
                                 user |-> UserInfo(r.user)]],
         path |-> IF verify_password(body.password, r.user.password_hash).val
                  THEN "token_issued" ELSE "password_mismatch"]

\* a login_handler that answers an unknown username as me_handler does
login_result_AbsentIsNotFound(r, body, t, hours, secret) ==
    IF ~r.ok THEN
        [response |-> ErrorResponse(500, "Internal server error"), path |-> "lookup_error"]
    ELSE IF ~r.found THEN
        [response |-> ErrorResponse(404, "User not found"), path |-> "user_absent"]
    ELSE IF ~verify_password(body.password, r.user.password_hash).ok THEN
        [response |-> ErrorResponse(500, "Internal server error"), path |-> "digest_error"]
    ELSE IF verify_password(body.password, r.user.password_hash).val THEN
        [response |-> [status |-> 200,
                       body |-> [token |-> generate_token(r.user, t, hours, secret),
                                 user |-> UserInfo(r.user)]],
         path |-> "token_issued"]
    ELSE
        [response |-> ErrorResponse(401, "Invalid username or password"),
         path |-> "password_mismatch"]

\* a login_handler that reports a failed lookup the way create_user reports
\* a failed insert
login_result_ReportsLookupError(r, body, t, hours, secret) ==
    IF ~r.ok THEN
        [response |-> ErrorResponse(500, "Database error: " \o r.err), path |-> "lookup_error"]
    ELSE IF ~r.found THEN
        [response |-> ErrorResponse(401, "Invalid username or password"), path |-> "user_absent"]
    ELSE IF ~verify_password(body.password, r.user.password_hash).ok THEN
        [response |-> ErrorResponse(500, "Internal server error"), path |-> "digest_error"]
    ELSE IF verify_password(body.password, r.user.password_hash).val THEN
        [response |-> [status |-> 200,
                       body |-> [token |-> generate_token(r.user, t, hours, secret),
                                 user |-> UserInfo(r.user)]],
         path |-> "token_issued"]
    ELSE
        [response |-> ErrorResponse(401, "Invalid username or password"),
         path |-> "password_mismatch"]

\* login_handler after find_user_by_username returned r: the response and the path taken
login_result(r, body, t, hours, secret) ==
    IF ~r.ok THEN
        [response |-> ErrorResponse(500, "Internal server error"), path |-> "lookup_error"]
    ELSE IF ~r.found THEN
        [response |-> ErrorResponse(401, "Invalid username or password"), path |-> "user_absent"]
    ELSE IF ~verify_password(body.password, r.user.password_hash).ok THEN
        [response |-> ErrorResponse(500, "Internal server error"), path |-> "digest_error"]
    ELSE IF verify_password(body.password, r.user.password_hash).val THEN
        [response |-> [status |-> 200,
                       body |-> [token |-> generate_token(r.user, t, hours, secret),
                                 user |-> UserInfo(r.user)]],
         path |-> "token_issued"]
    ELSE
        [response |-> ErrorResponse(401, "Invalid username or password"),
         path |-> "password_mismatch"]

\* login_handler: the request arrives and the lookup is sent
login_handler(p) ==
    /\ pc[p] = "idle"
    /\ \E body \in LoginBodies :
        /\ req' = [req EXCEPT ![p] = body]
        /\ pc' = [pc EXCEPT ![p] = "login_lookup"]
    /\ UNCHANGED <<users, users_id_seq, env, JWT_SECRET, TOKEN_EXPIRATION_HOURS,
                   now, local, resp, ghost>>

\* login_handler: find_user_by_username(...).await returns; password check,
\* token minting (first use resolves the Lazy cells) and response
login_lookup(p) ==
    /\ pc[p] = "login_lookup"
    /\ \E r \in find_user_by_username(users, req[p].username) :
        LET hours  == Force(TOKEN_EXPIRATION_HOURS, ResolveHours(env))
            secret == Force(JWT_SECRET, ResolveSecret(env))
            res    == login_result(r, req[p], now, hours.val, secret.val)
        IN  /\ Respond(p, res.response, [Path(res.path) EXCEPT !.dberr = r.err])
            /\ IF res.path = "token_issued"
               THEN /\ TOKEN_EXPIRATION_HOURS' = hours
                    /\ JWT_SECRET' = secret
               ELSE UNCHANGED <<TOKEN_EXPIRATION_HOURS, JWT_SECRET>>
    /\ UNCHANGED <<users, users_id_seq, env, now, req>>

-----------------------------------------------------------------------------
(* Bearer tokens presented by callers *)

Header(present, scheme, token) == [present |-> present, scheme |-> scheme, token |-> token]

ForgedClaims(username, exp) ==
    [sub |-> "1", username |-> username, cadre |-> "physician", exp |-> exp, iat |-> StartTime]

Jwt(alg, claims, key) == [wellformed |-> TRUE, alg |-> alg, claims |-> claims, key |-> key]

FarFuture == StartTime + 1000 * SecondsPerHour

\* tokens a caller can build without the server: unparsable text, a token
\* signed with a key of its own, a token with another algorithm, and tokens
\* signed with the development secret published in the source
ForgedTokens ==
    {NoToken,
     Jwt("HS256", ForgedClaims("alice", FarFuture), "attacker-secret"),
     Jwt("HS384", ForgedClaims("alice", FarFuture), DefaultSecret),
     Jwt("HS256", ForgedClaims("mallory", FarFuture), DefaultSecret),
     Jwt("HS256", ForgedClaims("alice", StartTime), DefaultSecret)}

\* tokens minted when the clock read StartTime, by this process (with the
\* values of its Lazy cells) or, as long as it has not resolved them, by an
\* earlier run of it in the same environment: for the rows of the table, and
\* for the row of alice whether it is still in the table or not
IssuedTokens ==
    {generate_token(u, StartTime,
                    Force(TOKEN_EXPIRATION_HOURS, ResolveHours(env)).val,
                    Force(JWT_SECRET, ResolveSecret(env)).val)
        : u \in users \cup {AliceRow}}

\* what a client may write before the token instead of "Bearer ": another
\* letter case, no space, nothing
WrongSchemes == {"bearer ", "Bearer", ""}

\* Authorization headers a client sends
Headers ==
    {Header(FALSE, "", NoToken)}
    \cup {Header(TRUE, x, generate_token(AliceRow, StartTime, ResolveHours(env),
                                         ResolveSecret(env))) : x \in WrongSchemes}
    \cup {Header(TRUE, "Bearer ", t) : t \in ForgedTokens \cup IssuedTokens}

\* a prefix test that ignores the letter case of the scheme
HasBearerPrefix_IgnoreCase(h) == starts_with(to_lowercase(h.scheme), "bearer ")

\* value_str.starts_with("Bearer "), the header text being the scheme followed by the token
HasBearerPrefix(h) == starts_with(h.scheme, "Bearer ")

\* &value_str[7..]: the token when the scheme has 7 characters, else text
\* that is no token
BearerToken(h) == IF Len(h.scheme) = 7 THEN h.token ELSE NoToken

-----------------------------------------------------------------------------
(* GET /api/auth/verify *)

\* a verify_handler that answers a missing header as a bad request
verify_result_MissingIsBadRequest(h, t, secret) ==
    IF ~h.present THEN
        [response |-> ErrorResponse(400, "Missing authorization header"),
         path |-> "header_missing", verr |-> ""]
    ELSE IF ~HasBearerPrefix(h) THEN
        [response |-> ErrorResponse(401, "Invalid authorization header format"),
         path |-> "header_prefix", verr |-> ""]
    ELSE IF verify_token(BearerToken(h), t, secret).ok THEN
        [response |-> [status |-> 200,
                       body |-> [valid |-> TRUE,
                                 username |-> verify_token(BearerToken(h), t, secret).claims.username,
                                 cadre |-> verify_token(BearerToken(h), t, secret).claims.cadre]],
         path |-> "token_ok", verr |-> ""]
    ELSE
        [response |-> ErrorResponse(401, "Invalid or expired token"),
         path |-> "token_rejected",
         verr |-> verify_token(BearerToken(h), t, secret).err]

\* a verify_handler that reports the kind of the verification error
verify_result_ReportsErrorKind(h, t, secret) ==
    IF ~h.present THEN
        [response |-> ErrorResponse(401, "Missing authorization header"),
         path |-> "header_missing", verr |-> ""]
    ELSE IF ~HasBearerPrefix(h) THEN
        [response |-> ErrorResponse(401, "Invalid authorization header format"),
         path |-> "header_prefix", verr |-> ""]
    ELSE IF verify_token(BearerToken(h), t, secret).ok THEN
        [response |-> [status |-> 200,
                       body |-> [valid |-> TRUE,
                                 username |-> verify_token(BearerToken(h), t, secret).claims.username,
                                 cadre |-> verify_token(BearerToken(h), t, secret).claims.cadre]],
         path |-> "token_ok", verr |-> ""]
    ELSE
        [response |-> ErrorResponse(401, verify_token(BearerToken(h), t, secret).err),
         path |-> "token_rejected",
         verr |-> verify_token(BearerToken(h), t, secret).err]

\* verify_handler: the response and the path taken
verify_result(h, t, secret) ==
    IF ~h.present THEN
        [response |-> ErrorResponse(401, "Missing authorization header"),
         path |-> "header_missing", verr |-> ""]
    ELSE IF ~HasBearerPrefix(h) THEN
        [response |-> ErrorResponse(401, "Invalid authorization header format"),
         path |-> "header_prefix", verr |-> ""]
    ELSE IF verify_token(BearerToken(h), t, secret).ok THEN
        [response |-> [status |-> 200,
                       body |-> [valid |-> TRUE,
                                 username |-> verify_token(BearerToken(h), t, secret).claims.username,
                                 cadre |-> verify_token(BearerToken(h), t, secret).claims.cadre]],
         path |-> "token_ok", verr |-> ""]
    ELSE
        [response |-> ErrorResponse(401, "Invalid or expired token"),
         path |-> "token_rejected",
         verr |-> verify_token(BearerToken(h), t, secret).err]

\* the Lazy secret after a handler that reaches verify_token only with a Bearer header
SecretAfter(h) ==
    IF h.present /\ HasBearerPrefix(h)
    THEN Force(JWT_SECRET, ResolveSecret(env)) ELSE JWT_SECRET

verify_handler(p) ==
    /\ pc[p] = "idle"
    /\ \E h \in Headers :
        LET res == verify_result(h, now, get_jwt_secret) IN
        /\ req' = [req EXCEPT ![p] = [kind |-> "verify", header |-> h]]
        /\ Respond(p, res.response, [Path(res.path) EXCEPT !.verr = res.verr])
        /\ JWT_SECRET' = SecretAfter(h)
    /\ UNCHANGED <<users, users_id_seq, env, TOKEN_EXPIRATION_HOURS, now>>

-----------------------------------------------------------------------------
(* GET /api/auth/me *)

\* me_handler up to the lookup: the rejection, or the claims to look up
me_auth(h, t, secret) ==
    IF ~h.present THEN
        [ok |-> FALSE, claims |-> NoClaims, path |-> "header_missing", verr |-> "",
         response |-> ErrorResponse(401, "Missing authorization header")]
    ELSE IF ~HasBearerPrefix(h) THEN
        [ok |-> FALSE, claims |-> NoClaims, path |-> "header_prefix", verr |-> "",
         response |-> ErrorResponse(401, "Invalid authorization header")]
    ELSE IF ~verify_token(BearerToken(h), t, secret).ok THEN
        [ok |-> FALSE, claims |-> NoClaims, path |-> "token_rejected",
         verr |-> verify_token(BearerToken(h), t, secret).err,
         response |-> ErrorResponse(401, "Invalid or expired token")]
    ELSE
        [ok |-> TRUE, claims |-> verify_token(BearerToken(h), t, secret).claims,
         path |-> "token_ok", verr |-> "", response |-> NoResp]

\* me_handler after find_user_by_username returned r
me_result(r) ==
    IF ~r.ok THEN
        [response |-> ErrorResponse(500, "Internal server error"), path |-> "lookup_error"]
    ELSE IF ~r.found THEN
        [response |-> ErrorResponse(404, "User not found"), path |-> "user_absent"]
    ELSE [response |-> [status |-> 200, body |-> UserInfo(r.user)], path |-> "profile"]

\* me_handler: header and token check, then the lookup is sent
me_handler(p) ==
    /\ pc[p] = "idle"
    /\ \E h \in Headers :
        LET auth == me_auth(h, now, get_jwt_secret) IN
        /\ req' = [req EXCEPT ![p] = [kind |-> "me", header |-> h]]
        /\ JWT_SECRET' = SecretAfter(h)
        /\ IF auth.ok
           THEN /\ pc' = [pc EXCEPT ![p] = "me_lookup"]
                /\ local' = [local EXCEPT ![p] = [kind |-> "me", claims |-> auth.claims]]
                /\ ghost' = [ghost EXCEPT ![p] = Path(auth.path)]
                /\ UNCHANGED resp
           ELSE Respond(p, auth.response, [Path(auth.path) EXCEPT !.verr = auth.verr])
    /\ UNCHANGED <<users, users_id_seq, env, TOKEN_EXPIRATION_HOURS, now>>

\* a me_handler that answers from the claims of the token
me_lookup_FromClaims(p) ==
    /\ pc[p] = "me_lookup"
    /\ Respond(p, [status |-> 200,
                   body |-> [id |-> DecValue(local[p].claims.sub),
                             username |-> local[p].claims.username,
                             fullname |-> "", email |-> "",
                             cadre |-> local[p].claims.cadre]],
               [Path("profile") EXCEPT !.at = ghost[p].at])
    /\ UNCHANGED <<users, users_id_seq, env, JWT_SECRET, TOKEN_EXPIRATION_HOURS,
                   now, req>>

\* me_handler: find_user_by_username(...).await returns
me_lookup(p) ==
    /\ pc[p] = "me_lookup"
    /\ \E r \in find_user_by_username(users, local[p].claims.username) :
        Respond(p, me_result(r).response,
                [Path(me_result(r).path) EXCEPT !.dberr = r.err, !.at = ghost[p].at])
    /\ UNCHANGED <<users, users_id_seq, env, JWT_SECRET, TOKEN_EXPIRATION_HOURS,
                   now, req>>

-----------------------------------------------------------------------------
(* Middleware helper *)

\* extract_user_from_request: Option<Claims>
extract_result(h, t, secret) ==
    IF ~h.present THEN
        [some |-> FALSE, claims |-> NoClaims, path |-> "header_missing", verr |-> ""]
    ELSE IF ~HasBearerPrefix(h) THEN
        [some |-> FALSE, claims |-> NoClaims, path |-> "header_prefix", verr |-> ""]
    ELSE IF verify_token(BearerToken(h), t, secret).ok THEN
        [some |-> TRUE, claims |-> verify_token(BearerToken(h), t, secret).claims,
         path |-> "token_ok", verr |-> ""]
    ELSE
        [some |-> FALSE, claims |-> NoClaims, path |-> "token_rejected",
         verr |-> verify_token(BearerToken(h), t, secret).err]

extract_user_from_request(p) ==
    /\ pc[p] = "idle"
    /\ \E h \in Headers :
        LET res == extract_result(h, now, get_jwt_secret) IN
        /\ req' = [req EXCEPT ![p] = [kind |-> "extract", header |-> h]]
        /\ Respond(p, [some |-> res.some, claims |-> res.claims],
                   [Path(res.path) EXCEPT !.verr = res.verr])
        /\ JWT_SECRET' = SecretAfter(h)
    /\ UNCHANGED <<users, users_id_seq, env, TOKEN_EXPIRATION_HOURS, now>>

-----------------------------------------------------------------------------
(* Environment of the server *)

\* the client reads the response
Receive(p) ==
    /\ pc[p] = "done"
    /\ pc' = [pc EXCEPT ![p] = "idle"]
    /\ req' = [req EXCEPT ![p] = NoReq]
    /\ resp' = [resp EXCEPT ![p] = NoResp]
    /\ ghost' = [ghost EXCEPT ![p] = NoGhost]
    /\ UNCHANGED <<users, users_id_seq, env, JWT_SECRET, TOKEN_EXPIRATION_HOURS,
                   now, local>>

\* a caller applies validate_text_input to a free-text field
call_validate_text_input(p) ==
    /\ pc[p] = "idle"
    /\ \E input \in TextInputs :
        /\ req' = [req EXCEPT ![p] = [kind |-> "validate_text_input", input |-> input]]
        /\ Respond(p, validate_text_input(input, "field"), Path("validated"))
    /\ UNCHANGED <<users, users_id_seq, env, JWT_SECRET, TOKEN_EXPIRATION_HOURS, now>>

\* a caller applies validate_username
call_validate_username(p) ==
    /\ pc[p] = "idle"
    /\ \E input \in UsernameInputs :
        /\ req' = [req EXCEPT ![p] = [kind |-> "validate_username", input |-> input]]
        /\ Respond(p, validate_username(input), Path("validated"))
    /\ UNCHANGED <<users, users_id_seq, env, JWT_SECRET, TOKEN_EXPIRATION_HOURS, now>>

\* a caller applies sanitize_html
call_sanitize_html(p) ==
    /\ pc[p] = "idle"
    /\ \E input \in HtmlInputs :
        /\ req' = [req EXCEPT ![p] = [kind |-> "sanitize_html", input |-> input]]
        /\ Respond(p, ValidationOk(sanitize_html(input)), Path("validated"))
    /\ UNCHANGED <<users, users_id_seq, env, JWT_SECRET, TOKEN_EXPIRATION_HOURS, now>>

\* a caller applies validate_motion_level to a reading
call_validate_motion_level(p) ==
    /\ pc[p] = "idle"
    /\ \E level \in LevelInputs :
        /\ req' = [req EXCEPT ![p] = [kind |-> "validate_motion_level", input |-> level]]
        /\ Respond(p, validate_motion_level(level), Path("validated"))
    /\ UNCHANGED <<users, users_id_seq, env, JWT_SECRET, TOKEN_EXPIRATION_HOURS, now>>

\* a caller applies validate_sound_level to a reading
call_validate_sound_level(p) ==
    /\ pc[p] = "idle"
    /\ \E level \in LevelInputs :
        /\ req' = [req EXCEPT ![p] = [kind |-> "validate_sound_level", input |-> level]]
        /\ Respond(p, validate_sound_level(level), Path("validated"))
    /\ UNCHANGED <<users, users_id_seq, env, JWT_SECRET, TOKEN_EXPIRATION_HOURS, now>>

\* a caller applies validate_time_range_minutes to a query parameter
call_validate_time_range_minutes(p) ==
    /\ pc[p] = "idle"
    /\ \E minutes \in MinuteInputs :
        /\ req' = [req EXCEPT ![p] =
                    [kind |-> "validate_time_range_minutes", input |-> minutes]]
        /\ Respond(p, validate_time_range_minutes(minutes), Path("validated"))
    /\ UNCHANGED <<users, users_id_seq, env, JWT_SECRET, TOKEN_EXPIRATION_HOURS, now>>

\* a caller applies validate_limit to a query parameter
call_validate_limit(p) ==
    /\ pc[p] = "idle"
    /\ \E limit \in LimitInputs, max_limit \in MaxLimitInputs :
        /\ req' = [req EXCEPT ![p] =
                    [kind |-> "validate_limit", input |-> limit, max_limit |-> max_limit]]
        /\ Respond(p, validate_limit(limit, max_limit), Path("validated"))
    /\ UNCHANGED <<users, users_id_seq, env, JWT_SECRET, TOKEN_EXPIRATION_HOURS, now>>

\* a Lazy deref that runs the closure although another thread is running it
Lazy_force_NoExclusion(p) ==
    /\ pc[p] = "idle"
    /\ \E cell \in LazyCells :
        /\ ~Cell(cell).init
        /\ pc' = [pc EXCEPT ![p] = "lazy_init"]
        /\ local' = [local EXCEPT ![p] =
                        [kind |-> "lazy", cell |-> cell, val |-> Closure(cell, env)]]
    /\ UNCHANGED <<users, users_id_seq, env, JWT_SECRET, TOKEN_EXPIRATION_HOURS,
                   now, req, resp, ghost>>

\* the first deref of a Lazy cell: the thread of slot p finds the cell empty
\* and no thread initialising it, and runs the closure, which reads the
\* environment
Lazy_force(p) ==
    /\ pc[p] = "idle"
    /\ \E cell \in LazyCells :
        /\ ~Cell(cell).init
        /\ ~Running(cell)
        /\ pc' = [pc EXCEPT ![p] = "lazy_init"]
        /\ local' = [local EXCEPT ![p] =
                        [kind |-> "lazy", cell |-> cell, val |-> Closure(cell, env)]]
    /\ UNCHANGED <<users, users_id_seq, env, JWT_SECRET, TOKEN_EXPIRATION_HOURS,
                   now, req, resp, ghost>>

\* the closure returns: its value is stored in the cell, and the threads
\* that wait for it go on
Lazy_complete(p) ==
    /\ pc[p] = "lazy_init"
    /\ IF local[p].cell = "JWT_SECRET"
       THEN /\ JWT_SECRET' = [init |-> TRUE, val |-> local[p].val]
            /\ UNCHANGED TOKEN_EXPIRATION_HOURS
       ELSE /\ TOKEN_EXPIRATION_HOURS' = [init |-> TRUE, val |-> local[p].val]
            /\ UNCHANGED JWT_SECRET
    /\ pc' = [pc EXCEPT ![p] = "idle"]
    /\ local' = [local EXCEPT ![p] = NoLocal]
    /\ UNCHANGED <<users, users_id_seq, env, now, req, resp, ghost>>

\* JWT_SECRET or TOKEN_EXPIRATION_HOURS is set, changed or removed in the
\* environment of the running process
EnvChange ==
    /\ \E e \in Environments : e # env /\ env' = e
    /\ UNCHANGED <<users, users_id_seq, JWT_SECRET, TOKEN_EXPIRATION_HOURS,
                   now, pc, req, local, resp, ghost>>

\* the table is changed from outside the core (an administrator's UPDATE or
\* DELETE on the row of alice)
AdminChange ==
    /\ \E u \in users :
        /\ u.id = AliceRow.id
        /\ \/ users' = users \ {u}
           \/ /\ u.cadre # "physician"
              /\ users' = (users \ {u})
                    \cup {[u EXCEPT !.cadre = "physician", !.fullname = "Alice B."]}
    /\ UNCHANGED <<users_id_seq, env, JWT_SECRET, TOKEN_EXPIRATION_HOURS,
                   now, pc, req, local, resp, ghost>>

\* time passes
Tick ==
    /\ \E t \in ClockPoints : t > now /\ now' = t
    /\ UNCHANGED <<users, users_id_seq, env, JWT_SECRET, TOKEN_EXPIRATION_HOURS,
                   pc, req, local, resp, ghost>>

\* the credential workflows: concurrent signups and logins on one table
Next ==
    \/ \E p \in Procs : signup_handler(p)
    \/ \E p \in Procs : create_user_get_client(p)
    \/ \E p \in Procs : create_user_insert(p)
    \/ \E p \in Procs : login_handler(p)
    \/ \E p \in Procs : login_lookup(p)
    \/ \E p \in Procs : Receive(p)

Spec == Init /\ [][Next]_vars

\* the signup workflow alone: concurrent signups on one table
NextSignup ==
    \/ \E p \in Procs : signup_handler(p)
    \/ \E p \in Procs : create_user_get_client(p)
    \/ \E p \in Procs : create_user_insert(p)
    \/ \E p \in Procs : Receive(p)

SpecSignup == Init /\ [][NextSignup]_vars

\* the token workflows: token-bearing requests as time passes
NextToken ==
    \/ \E p \in Procs : verify_handler(p)
    \/ \E p \in Procs : me_handler(p)
    \/ \E p \in Procs : me_lookup(p)
    \/ \E p \in Procs : extract_user_from_request(p)
    \/ \E p \in Procs : Receive(p)
    \/ Tick

SpecToken == InitToken /\ [][NextToken]_vars

\* logins as time passes, in any environment
NextMint ==
    \/ \E p \in Procs : login_handler(p)
    \/ \E p \in Procs : login_lookup(p)
    \/ \E p \in Procs : Receive(p)
    \/ Tick

SpecMint == InitMint /\ [][NextMint]_vars

\* verify and "me" as time passes while the table is changed from outside
NextProfile ==
    \/ \E p \in Procs : verify_handler(p)
    \/ \E p \in Procs : me_handler(p)
    \/ \E p \in Procs : me_lookup(p)
    \/ \E p \in Procs : Receive(p)
    \/ Tick
    \/ AdminChange

SpecProfile == InitProfile /\ [][NextProfile]_vars

\* callers of the validation functions
NextValidation ==
    \/ \E p \in Procs : call_validate_text_input(p)
    \/ \E p \in Procs : call_validate_username(p)
    \/ \E p \in Procs : call_sanitize_html(p)
    \/ \E p \in Procs : call_validate_motion_level(p)
    \/ \E p \in Procs : call_validate_sound_level(p)
    \/ \E p \in Procs : call_validate_time_range_minutes(p)
    \/ \E p \in Procs : call_validate_limit(p)
    \/ \E p \in Procs : Receive(p)

SpecValidation == InitProfile /\ [][NextValidation]_vars

\* every route of configure_auth_routes and the middleware helper on one
\* table, the signups differing in the shape of the username
NextAll ==
    \/ \E p \in Procs : signup_request(p, UsernameBodies)
    \/ \E p \in Procs : create_user_get_client(p)
    \/ \E p \in Procs : create_user_insert(p)
    \/ \E p \in Procs : login_handler(p)
    \/ \E p \in Procs : login_lookup(p)
    \/ \E p \in Procs : verify_handler(p)
    \/ \E p \in Procs : me_handler(p)
    \/ \E p \in Procs : me_lookup(p)
    \/ \E p \in Procs : extract_user_from_request(p)
    \/ \E p \in Procs : Receive(p)

SpecAll == Init /\ [][NextAll]_vars

\* login and verify on threads that race for the first use of the Lazy cells
\* while the environment is changed; a handler that dereferences a cell
\* waits while a closure runs
NextConfig ==
    \/ \E p \in Procs : Lazy_force(p)
    \/ \E p \in Procs : Lazy_complete(p)
    \/ EnvChange
    \/ \E p \in Procs : login_handler(p)
    \/ \E p \in Procs : Unblocked /\ login_lookup(p)
    \/ \E p \in Procs : Unblocked /\ verify_handler(p)
    \/ \E p \in Procs : Receive(p)

SpecConfig == InitToken /\ [][NextConfig]_vars

-----------------------------------------------------------------------------
(* Properties of the credential workflows (Spec) *)

Done(p, kind) == pc[p] = "done" /\ req[p].kind = kind

HasToken(p) == "token" \in DOMAIN resp[p].body

\* C1: no two rows of the users table share a username or an email, and of two
\* signups for one username at most one is answered with a created identity
C1_UniqueIdentities ==
    /\ \A u, v \in users : (u.username = v.username \/ u.email = v.email) => u = v
    /\ \A p, q \in Procs :
        (p # q /\ Done(p, "signup") /\ Done(q, "signup")
              /\ req[p].username = req[q].username)
        => ~(resp[p].status = 201 /\ resp[q].status = 201)

\* two signups for one username overlapped in time (q had started before the
\* insert of p ran, and its own insert ran after it): p created the identity,
\* q hit the unique index
C1_Witness ==
    \E p, q \in Procs :
        /\ p # q /\ Done(p, "signup") /\ Done(q, "signup")
        /\ req[p].username = req[q].username
        /\ resp[p].status = 201
        /\ ghost[q].path = "insert_unique"
        /\ ghost[q].seq0 < resp[p].body.user.id
        /\ \E u \in users : u.id = resp[p].body.user.id

\* C2: a login response carries a token only if a row with the requested
\* username is stored and verify_password on its hash returned Ok(true); on the
\* paths user absent, mismatch, malformed digest and failed lookup it carries none
C2_TokenOnlyAfterVerifiedPassword ==
    \A p \in Procs : Done(p, "login") =>
        /\ HasToken(p) =>
            \E u \in users :
                /\ u.username = req[p].username
                /\ verify_password(req[p].password, u.password_hash).ok
                /\ verify_password(req[p].password, u.password_hash).val
        /\ ghost[p].path \in {"user_absent", "password_mismatch", "digest_error", "lookup_error"}
            => ~HasToken(p)

C2_Witness ==
    \E p \in Procs : Done(p, "login") /\ HasToken(p) /\ resp[p].status = 200

\* C6: a login for an unknown username and a login with a wrong password get
\* the same response: 401 with "Invalid username or password"
C6_LoginFailuresIndistinguishable ==
    \A p, q \in Procs :
        (Done(p, "login") /\ Done(q, "login")
            /\ ghost[p].path = "user_absent" /\ ghost[q].path = "password_mismatch")
        => /\ resp[p] = resp[q]
           /\ resp[p] = ErrorResponse(401, "Invalid username or password")

C6_Witness ==
    \E p, q \in Procs :
        /\ Done(p, "login") /\ ghost[p].path = "user_absent"
        /\ Done(q, "login") /\ ghost[q].path = "password_mismatch"
        /\ \E u \in users : u.username = req[q].username
        /\ ~\E u \in users : u.username = req[p].username

\* C9: when create_user fails for a reason other than a unique violation (no
\* connection, another database error) the signup response does not contain
\* the text of the database error
C9_InsertFailureIsOpaque ==
    \A p \in Procs :
        (Done(p, "signup") /\ ghost[p].path \in {"conn_error", "insert_error"})
        => ~Contains(resp[p].body.error, ghost[p].dberr)

\* C10: a signup that violates the unique index of username is answered 400
\* "Username already exists", one that violates the unique index of email is
\* answered 400 "Email already exists"
C10_ConflictNamesTheField ==
    \A p \in Procs :
        (Done(p, "signup") /\ ghost[p].path = "insert_unique")
        => /\ resp[p].status = 400
           /\ ghost[p].col = "username" => resp[p].body.error = "Username already exists"
           /\ ghost[p].col = "email" => resp[p].body.error = "Email already exists"

\* C18: a login whose lookup failed in the database is answered 500 with
\* "Internal server error" whatever the text of the failure, and carries no
\* token
C18_LookupFailureIsGeneric ==
    \A p \in Procs :
        (Done(p, "login") /\ ghost[p].dberr # "")
        => /\ resp[p] = [status |-> 500, body |-> [error |-> "Internal server error"]]
           /\ ~Contains(resp[p].body.error, ghost[p].dberr)
           /\ ~HasToken(p)

\* two logins of a registered user with her password failed in the lookup
\* with different errors and got the same response
C18_Witness ==
    \E p, q \in Procs :
        /\ Done(p, "login") /\ ghost[p].dberr = "connection refused"
        /\ Done(q, "login") /\ ghost[q].dberr = "connection closed"
        /\ resp[p] = resp[q] /\ resp[p].status = 500
        /\ \E u \in users :
            /\ u.username = req[p].username
            /\ verify_password(req[p].password, u.password_hash).val

\* the input checks of signup: username of 3 or more, password of 8 or more
\* (lengths as str::len counts them) with an uppercase letter and a digit
LacksUppercase(password) == \A i \in 1..Len(password) : ~is_uppercase(SubSeq(password, i, i))
LacksDigit(password) == \A i \in 1..Len(password) : ~is_numeric(SubSeq(password, i, i))
LengthsOk(body) == len(body.username) >= 3 /\ len(body.password) >= 8
SignupInvalid(body) ==
    ~LengthsOk(body) \/ LacksUppercase(body.password) \/ LacksDigit(body.password)

\* a signup with invalid input is answered at once with a client error, whose
\* message names the missing character class when the lengths are in order
C14_Rejected ==
    \A p \in Procs :
        (req[p].kind = "signup" /\ SignupInvalid(req[p]))
        => /\ pc[p] = "done"
           /\ resp[p].status >= 400 /\ resp[p].status < 500
           /\ ghost[p].path \in {"username_short", "password_short", "password_weak"}
           /\ len(req[p].username) < 3 => Contains(resp[p].body.error, "Username")
           /\ (len(req[p].username) >= 3 /\ len(req[p].password) < 8)
                => Contains(resp[p].body.error, "Password must be at least 8")
           /\ (LengthsOk(req[p]) /\ LacksUppercase(req[p].password))
                => Contains(resp[p].body.error, "uppercase letter")
           /\ (LengthsOk(req[p]) /\ LacksDigit(req[p].password))
                => Contains(resp[p].body.error, "number")

\* the step that takes in such a signup writes nothing to the table, draws no
\* id and ends the request
C14_NoWrite ==
    \A p \in Procs :
        (pc[p] = "idle" /\ req'[p].kind = "signup" /\ SignupInvalid(req'[p]))
        => users' = users /\ users_id_seq' = users_id_seq /\ pc'[p] = "done"

CadreParses(body) ==
    to_lowercase(body.cadre) \in {"physician", "nurse", "physiotherapist", "caretaker"}

\* a signup with an unknown cadre is answered at once as invalid input, and
\* only such a signup is answered with the cadre error
C15_Rejected ==
    \A p \in Procs : req[p].kind = "signup" =>
        /\ ~CadreParses(req[p])
            => /\ pc[p] = "done"
               /\ resp[p].status = 400
               /\ ghost[p].path \in
                    {"username_short", "password_short", "password_weak", "cadre"}
               /\ ~SignupInvalid(req[p])
                    => resp[p].body.error = "Unknown cadre: " \o req[p].cadre
        /\ (pc[p] = "done" /\ ghost[p].path = "cadre") => ~CadreParses(req[p])

\* the step that takes in such a signup acquires no connection (the request
\* ends without reaching create_user's get_client or INSERT) and leaves the
\* table and its sequence as they are
C15_NoStorageAccess ==
    \A p \in Procs :
        (pc[p] = "idle" /\ req'[p].kind = "signup" /\ ~CadreParses(req'[p]))
        => users' = users /\ users_id_seq' = users_id_seq /\ pc'[p] = "done"

\* C15: a signup whose cadre is not physician, nurse, physiotherapist or
\* caretaker in any letter case is rejected as invalid input before storage
\* is touched: no connection, no insert, table unchanged
C15_UnknownCadreRejectedFirst == []C15_Rejected /\ [][C15_NoStorageAccess]_vars

\* a signup with cadre "janitor" and otherwise valid input was rejected while
\* a signup with cadre "Nurse" went on to the database
C15_Witness ==
    \E p, q \in Procs :
        /\ Done(p, "signup") /\ ghost[p].path = "cadre" /\ ~SignupInvalid(req[p])
        /\ resp[p] = ErrorResponse(400, "Unknown cadre: janitor")
        /\ req[q].kind = "signup" /\ req[q].cadre = "Nurse"
        /\ pc[q] = "create_user_insert"

-----------------------------------------------------------------------------
(* Properties of all workflows together (SpecAll) *)

\* C11: every row of the users table, and every identity a signup answered
\* as created, has a username validate_username accepts (3 to 30 characters of
\* [A-Za-z0-9_-])
C11_StoredUsernamesAreValid ==
    /\ \A u \in users : validate_username(u.username).ok
    /\ \A p \in Procs :
        (Done(p, "signup") /\ resp[p].status = 201)
        => validate_username(req[p].username).ok

\* the field names of a response body and of the records nested in it
ResponseFields(body) ==
    DOMAIN body
    \cup (IF "user" \in DOMAIN body THEN DOMAIN body.user ELSE {})
    \cup (IF "token" \in DOMAIN body THEN DOMAIN body.token.claims ELSE {})

\* the salts of the bcrypt digests in the table
StoredSalts == {u.password_hash.salt : u \in {v \in users : v.password_hash.wellformed}}

\* C12: no HTTP response of signup, login, verify or me has a password_hash
\* field, at top level, in its user object or in the claims of its token, and
\* no error message contains the text of a stored digest
C12_NoPasswordHashInResponses ==
    \A p \in Procs :
        (pc[p] = "done" /\ req[p].kind \in {"signup", "login", "verify", "me"})
        => /\ "password_hash" \notin ResponseFields(resp[p].body)
           /\ "error" \in DOMAIN resp[p].body
                => \A x \in StoredSalts : ~Contains(resp[p].body.error, x)

\* a login answered with a token and a user object while "me" answered with
\* the profile of a user whose row holds a bcrypt digest
C12_Witness ==
    \E p, q \in Procs :
        /\ Done(p, "login") /\ HasToken(p) /\ "user" \in DOMAIN resp[p].body
        /\ Done(q, "me") /\ ghost[q].path = "profile"
        /\ \E u \in users : u.id = resp[q].body.id /\ u.password_hash.wellformed

\* slot p takes a step of a request of one of these kinds
Steps(p, kinds) ==
    /\ pc'[p] # pc[p]
    /\ req[p].kind \in kinds \/ req'[p].kind \in kinds

\* a step keeps every row as it is; a step of login, verify, "me" or the
\* middleware helper leaves the table as it is; a step of signup leaves it as
\* it is or adds one row, for the username of the request, with an id, a
\* username and an email no row had
C23_StoreStep ==
    /\ users \subseteq users'
    /\ \A p \in Procs :
        Steps(p, {"login", "verify", "me", "extract"}) => users' = users
    /\ \A p \in Procs :
        Steps(p, {"signup"}) =>
            \/ users' = users
            \/ /\ Cardinality(users' \ users) = 1
               /\ \A u \in users' \ users :
                    /\ u.username = req[p].username /\ u.email = req[p].email
                    /\ \A v \in users :
                        v.id # u.id /\ v.username # u.username /\ v.email # u.email

\* C23: the users table only grows and its rows never change: login, verify
\* and "me" leave it unchanged, a signup adds exactly one new row or none
C23_StoreOnlyGrows == [][C23_StoreStep]_vars

\* a signup added a row to a table that held one, which is still there, a
\* login for the new row was answered with a token, and the table holds
\* these two rows only
C23_Witness ==
    \E p, q \in Procs :
        /\ Done(p, "signup") /\ resp[p].status = 201
        /\ Done(q, "login") /\ HasToken(q) /\ req[q].username = req[p].username
        /\ LegacyRow \in users /\ Cardinality(users) = 2
        /\ \E u \in users : u.id = resp[p].body.user.id /\ u.username = req[p].username

\* the positions at which a handler waits for the answer to a statement
StoragePositions == {"create_user_insert", "login_lookup", "me_lookup"}

\* how far a handler has come: a request moves forward only
Progress(position) ==
    IF position = "idle" THEN 0
    ELSE IF position = "create_user_conn" THEN 1
    ELSE IF position \in StoragePositions THEN 2
    ELSE 3

\* the handler of slot p takes a step
Moves(p) ==
    <<pc[p], req[p], local[p], resp[p], ghost[p]>>
        # <<pc'[p], req'[p], local'[p], resp'[p], ghost'[p]>>

\* a handler never goes back to an earlier position, so it waits for the
\* answer to one statement at most; the answer, good or bad, ends the request
\* with its response, a bad one with an error response; and one step sends
\* one INSERT at most
C24_StorageStep ==
    \A p \in Procs : Moves(p) =>
        /\ pc[p] # "done" => Progress(pc'[p]) > Progress(pc[p])
        /\ pc[p] = "done" => pc'[p] = "idle"
        /\ pc[p] \in StoragePositions =>
            /\ pc'[p] = "done"
            /\ resp'[p] # NoResp
            /\ ghost'[p].dberr # "" =>
                /\ resp'[p].status \in {400, 500}
                /\ DOMAIN resp'[p].body = {"error"}
                /\ users' = users
        /\ users_id_seq' - users_id_seq \in {0, 1}
        /\ users_id_seq' # users_id_seq => pc[p] = "create_user_insert"

\* C24: no workflow sends a statement again: a signup sends one INSERT at
\* most, a login or a "me" one lookup at most, and a failed statement ends the
\* request with one error response
C24_NoRetry == [][C24_StorageStep]_vars

\* an INSERT that failed in transit ended its signup with an error, nothing
\* having been executed since the signup started, and a lookup that failed
\* ended its login with an error
C24_Witness ==
    \E p, q \in Procs :
        /\ Done(p, "signup") /\ ghost[p].path = "insert_error"
        /\ ghost[p].dberr \in TransientErrors /\ resp[p].status = 400
        /\ users_id_seq = ghost[p].seq0
        /\ Done(q, "login") /\ ghost[q].path = "lookup_error" /\ resp[q].status = 500

-----------------------------------------------------------------------------
(* Properties of token minting (SpecMint) *)

\* the validity window the environment configures, in hours: 24 when
\* TOKEN_EXPIRATION_HOURS is not set or is not a number
ConfiguredHours ==
    IF ~env.TOKEN_EXPIRATION_HOURS.set THEN 24
    ELSE IF env.TOKEN_EXPIRATION_HOURS.val = "2" THEN 2
    ELSE IF env.TOKEN_EXPIRATION_HOURS.val = "-300" THEN -300
    ELSE 24

\* C13: the token of a login response carries iat equal to the clock reading
\* of the login and exp equal to iat plus the configured window
C13_ExpiryIsIssuedAtPlusWindow ==
    \A p \in Procs :
        (Done(p, "login") /\ HasToken(p))
        => /\ resp[p].body.token.claims.iat = ghost[p].at
           /\ resp[p].body.token.claims.exp
                = resp[p].body.token.claims.iat + ConfiguredHours * SecondsPerHour

-----------------------------------------------------------------------------
(* Properties of the token workflows (SpecToken) *)

\* slot p holds a request that presented a parsable token after "Bearer "
PresentsToken(p) ==
    /\ req[p].kind \in {"verify", "me", "extract"}
    /\ pc[p] \in {"done", "me_lookup"}
    /\ req[p].header.present
    /\ req[p].header.scheme = "Bearer "
    /\ req[p].header.token.wellformed

\* verify_token returned claims to the handler of slot p
Accepted(p) ==
    \/ req[p].kind = "verify" /\ pc[p] = "done" /\ resp[p].status = 200
    \/ req[p].kind = "extract" /\ pc[p] = "done" /\ resp[p].some
    \/ req[p].kind = "me" /\ pc[p] = "me_lookup"
    \/ req[p].kind = "me" /\ pc[p] = "done"
          /\ ghost[p].path \in {"profile", "user_absent", "lookup_error"}

\* C3: a token whose exp is at or before the clock reading of the
\* verification is never accepted
C3_ExpiredTokenRejected ==
    \A p \in Procs :
        (PresentsToken(p) /\ req[p].header.token.claims.exp <= ghost[p].at)
        => ~Accepted(p)

\* C4: a token signed with a key other than the secret of the process is
\* never accepted
C4_ForeignSignatureRejected ==
    \A p \in Procs :
        (PresentsToken(p) /\ req[p].header.token.key # ResolveSecret(env))
        => ~Accepted(p) /\ JWT_SECRET = [init |-> TRUE, val |-> ResolveSecret(env)]

\* an unexpired HS256 token signed with another key was presented and rejected
C4_Witness ==
    \E p \in Procs :
        /\ PresentsToken(p) /\ pc[p] = "done"
        /\ req[p].header.token.key # JWT_SECRET.val
        /\ req[p].header.token.alg = "HS256"
        /\ req[p].header.token.claims.exp > ghost[p].at
        /\ ghost[p].verr = "InvalidSignature"

\* C5: the token minted for a stored user, verified before its exp, is
\* accepted, and the claims handed back carry the user's username and cadre
\* and its id in decimal as sub
C5_IssuedTokenRoundTrip ==
    \A p \in Procs : \A u \in users :
        (/\ PresentsToken(p)
         /\ req[p].header.token
                = generate_token(u, StartTime, ResolveHours(env), ResolveSecret(env))
         /\ ghost[p].at < req[p].header.token.claims.exp)
        => /\ Accepted(p)
           /\ req[p].kind = "verify" =>
                resp[p].body.username = u.username /\ resp[p].body.cadre = u.cadre
           /\ req[p].kind = "extract" =>
                /\ resp[p].claims.username = u.username
                /\ resp[p].claims.cadre = u.cadre
                /\ resp[p].claims.sub = to_string(u.id)
                /\ DecValue(resp[p].claims.sub) = u.id
           /\ (req[p].kind = "me" /\ pc[p] = "me_lookup") =>
                /\ local[p].claims.username = u.username
                /\ local[p].claims.cadre = u.cadre
                /\ DecValue(local[p].claims.sub) = u.id

\* the token of alice went through extract_user_from_request before its exp
C5_Witness ==
    \E p \in Procs :
        /\ PresentsToken(p) /\ req[p].kind = "extract" /\ resp[p].some
        /\ req[p].header.token \in IssuedTokens
        /\ resp[p].claims.username = "alice"
        /\ StartTime < ghost[p].at /\ ghost[p].at < req[p].header.token.claims.exp

\* C17: a request without an Authorization header, or with one that does not
\* start with "Bearer " (this letter case, one space), is rejected by
\* verify_handler and me_handler with 401 and without a user name, never
\* reaches the lookup of "me", and gets None from extract_user_from_request
C17_NoBearerNoIdentity ==
    \A p \in Procs :
        (/\ req[p].kind \in {"verify", "me", "extract"}
         /\ \/ ~req[p].header.present
            \/ Len(req[p].header.scheme) < 7
            \/ SubSeq(req[p].header.scheme, 1, 7) # "Bearer ")
        => /\ pc[p] = "done"
           /\ ~Accepted(p)
           /\ req[p].kind \in {"verify", "me"}
                => /\ resp[p].status = 401
                   /\ DOMAIN resp[p].body = {"error"}
           /\ req[p].kind = "extract"
                => resp[p] = [some |-> FALSE, claims |-> NoClaims]

\* the unexpired token of alice after "bearer " got None from the helper, and
\* a "me" without header was answered 401
C17_Witness ==
    \E p, q \in Procs :
        /\ Done(p, "extract") /\ req[p].header.present
        /\ req[p].header.scheme = "bearer "
        /\ req[p].header.token \in IssuedTokens
        /\ ghost[p].at < req[p].header.token.claims.exp
        /\ ~resp[p].some
        /\ Done(q, "me") /\ ~req[q].header.present /\ resp[q].status = 401

AuthFailures == {"header_missing", "header_prefix", "token_rejected"}

UnauthorizedMessage(kind, path) ==
    IF path = "header_missing" THEN "Missing authorization header"
    ELSE IF path = "token_rejected" THEN "Invalid or expired token"
    ELSE IF kind = "verify" THEN "Invalid authorization header format"
    ELSE "Invalid authorization header"

C8_TamperedAndExpiredAlike ==
    \A p, q \in Procs : \A k \in {"verify", "me", "extract"} :
        (Done(p, k) /\ Done(q, k)
            /\ ghost[p].verr = "InvalidSignature" /\ ghost[q].verr = "ExpiredSignature")
        => resp[p] = resp[q]

C8_Witness ==
    \E p, q \in Procs : \E k \in {"verify", "me", "extract"} :
        /\ Done(p, k) /\ ghost[p].verr = "InvalidSignature"
        /\ Done(q, k) /\ ghost[q].verr = "ExpiredSignature"
        /\ req[q].header.token.key = JWT_SECRET.val

-----------------------------------------------------------------------------
(* Properties of "me" on a changing table (SpecProfile) *)

\* the token minted for alice before the table was changed
AliceToken == generate_token(AliceRow, StartTime, ResolveHours(env), ResolveSecret(env))

\* when the lookup of "me" returns, the response is built from the table as it
\* is at that moment: the public fields of the row with the token's username,
\* 404 when there is no such row, 500 when the lookup failed
C16_AnswersFromTable ==
    \A p \in Procs :
        (pc[p] = "me_lookup" /\ pc'[p] = "done")
        => /\ resp'[p].status \in {200, 404, 500}
           /\ resp'[p].status = 200
                => \E u \in users :
                    /\ u.username = local[p].claims.username
                    /\ resp'[p].body = [id |-> u.id, username |-> u.username,
                                        fullname |-> u.fullname, email |-> u.email,
                                        cadre |-> u.cadre]
           /\ resp'[p].status = 404
                => /\ ~\E u \in users : u.username = local[p].claims.username
                   /\ resp'[p].body.error = "User not found"

\* the token of alice verifies until its expiry and yields the values
\* embedded in it, whatever happened to her row
C16_TokenUnaffected ==
    \A p \in Procs :
        (Done(p, "verify") /\ req[p].header = Header(TRUE, "Bearer ", AliceToken)
            /\ ghost[p].at < AliceToken.claims.exp)
        => resp[p] = [status |-> 200,
                      body |-> [valid |-> TRUE, username |-> "alice", cadre |-> "Nurse"]]

\* C16: "me" with a verified token answers with the profile stored now for
\* the token's username (changed fields after an update, no profile after a
\* removal), not with the values in the token, and the token still verifies
C16_ProfileIsLive == []C16_TokenUnaffected /\ [][C16_AnswersFromTable]_vars

\* after the row of alice was updated "me" answered her token with the new
\* cadre, after it was removed "me" answered the same token with 404, and
\* the token was presented after the change both times
C16_Witness ==
    \E p, q \in Procs :
        /\ Done(p, "me") /\ req[p].header.token = AliceToken
        /\ ghost[p].path = "profile" /\ ghost[p].at > StartTime
        /\ resp[p].body.cadre = "physician" /\ AliceToken.claims.cadre = "Nurse"
        /\ Done(q, "me") /\ req[q].header.token = AliceToken
        /\ ghost[q].path = "user_absent" /\ resp[q].status = 404
        /\ ~\E u \in users : u.username = "alice"

-----------------------------------------------------------------------------
(* Properties of the validation functions (SpecValidation) *)

\* C19: validate_text_input returns Ok exactly for the inputs that pass
\* check_sql_injection and check_xss, the value being sanitize_html(input);
\* an input flagged by the SQL check fails as PotentialSQLInjection, one
\* flagged by the XSS check alone as PotentialXSS, and neither carries a value
C19_RejectThenSanitize ==
    \A p \in Procs : Done(p, "validate_text_input") =>
        LET input == req[p].input
            sql   == check_sql_injection(input).ok
            xss   == check_xss(input).ok
        IN  /\ resp[p].ok <=> (sql /\ xss)
            /\ resp[p].ok => resp[p].val = sanitize_html(input) /\ resp[p].err = ""
            /\ ~sql => resp[p].err = "PotentialSQLInjection" /\ resp[p].val = ""
            /\ (sql /\ ~xss) => resp[p].err = "PotentialXSS" /\ resp[p].val = ""
            /\ input = "A & B" => resp[p].ok /\ resp[p].val = "A &amp; B"
            /\ input = "1 OR 1=1" => resp[p].ok /\ resp[p].val = input
            /\ input = "<script>alert('xss')</script>"
                    => resp[p].err = "PotentialSQLInjection"
            /\ input = "<img onerror='alert(1)'>" => resp[p].err = "PotentialXSS"
            /\ input = "<IFRAME src=x>" => resp[p].err = "PotentialXSS"

\* one input came back escaped, another, which only the XSS check flags and
\* which escaping would have disguised, was rejected
C19_Witness ==
    \E p, q \in Procs :
        /\ Done(p, "validate_text_input") /\ resp[p].ok /\ resp[p].val # req[p].input
        /\ Done(q, "validate_text_input") /\ ~resp[q].ok
        /\ check_sql_injection(req[q].input).ok
        /\ check_xss(sanitize_html(req[q].input)).ok

\* the characters a username may have
UsernameAlphabet ==
    Chars("abcdefghijklmnopqrstuvwxyzABCDEFGHIJKLMNOPQRSTUVWXYZ0123456789_-")

\* C20: validate_username fails the empty string as InvalidUsername, a
\* non-empty input shorter than 3 as TooShort, one longer than 30 as TooLong,
\* one of length 3..30 with a character outside [A-Za-z0-9_-] as
\* InvalidUsername, and accepts every other input (lengths as str::len
\* counts them, in bytes)
C20_UsernameClassification ==
    \A p \in Procs : Done(p, "validate_username") =>
        LET u       == req[p].input
            n       == len(u)
            allowed == \A i \in 1..Len(u) : SubSeq(u, i, i) \in UsernameAlphabet
        IN  /\ u = "" => resp[p].err = "InvalidUsername"
            /\ (u # "" /\ n < 3) => resp[p].err = "TooShort"
            /\ n > 30 => resp[p].err = "TooLong"
            /\ (n >= 3 /\ n <= 30 /\ ~allowed) => resp[p].err = "InvalidUsername"
            /\ (n >= 3 /\ n <= 30 /\ allowed) => resp[p].ok
            /\ resp[p].ok <=> resp[p].err = ""
            /\ u = "ab" => resp[p].err = "TooShort"
            /\ u = "a@" => resp[p].err = "TooShort"
            /\ u = "u234567890123456789012345678901" => resp[p].err = "TooLong"
            /\ u = "u23456789012345678901234567890" => resp[p].ok
            /\ u = "john_doe" => resp[p].ok
            /\ u = "user@name" => resp[p].err = "InvalidUsername"

\* the empty string failed as InvalidUsername, and an input of 31 with a
\* character outside the class failed as TooLong
C20_Witness ==
    \E p, q \in Procs :
        /\ Done(p, "validate_username") /\ req[p].input = ""
        /\ resp[p].err = "InvalidUsername"
        /\ Done(q, "validate_username") /\ Len(req[q].input) = 31
        /\ Contains(req[q].input, "@") /\ resp[q].err = "TooLong"

\* the entity of a special character, any other character itself
Entity(c) ==
    IF c = "&" THEN "&amp;"
    ELSE IF c = "<" THEN "&lt;"
    ELSE IF c = ">" THEN "&gt;"
    ELSE IF c = "\"" THEN "&quot;"
    ELSE IF c = "'" THEN "&#x27;"
    ELSE IF c = "/" THEN "&#x2F;"
    ELSE c

\* the text with each character replaced by its entity in one pass
RECURSIVE EscapeEach(_)
EscapeEach(s) ==
    IF Len(s) = 0 THEN "" ELSE Entity(SubSeq(s, 1, 1)) \o EscapeEach(SubSeq(s, 2, Len(s)))

\* the occurrences of a character in a text
Occurrences(s, c) == Cardinality({i \in 1..Len(s) : SubSeq(s, i, i) = c})

RawSpecials == {"<", ">", "\"", "'", "/"}

\* C21: sanitize_html returns the input with each & < > " ' / replaced by its
\* entity once and every other character kept: the ampersands of the entities
\* are not escaped again (the output has as many ampersands as the input has
\* special characters) and the output holds no raw < > " ' /
C21_EscapesEachOnce ==
    \A p \in Procs : Done(p, "sanitize_html") =>
        LET input == req[p].input
            out   == resp[p].val
        IN  /\ out = EscapeEach(input)
            /\ \A c \in RawSpecials : ~Contains(out, c)
            /\ Occurrences(out, "&")
                    = Cardinality({i \in 1..Len(input) :
                                    SubSeq(input, i, i) \in RawSpecials \cup {"&"}})
            /\ input = "<script>" => out = "&lt;script&gt;"
            /\ input = "A & B" => out = "A &amp; B"
            /\ input = "\"quoted\"" => out = "&quot;quoted&quot;"
            /\ input = "&amp;" => out = "&amp;amp;"

\* a text with all six special characters came back escaped, and a text
\* without any came back as it was
C21_Witness ==
    \E p, q \in Procs :
        /\ Done(p, "sanitize_html")
        /\ \A c \in RawSpecials \cup {"&"} : Contains(req[p].input, c)
        /\ resp[p].val = EscapeEach(req[p].input) /\ resp[p].val # req[p].input
        /\ Done(q, "sanitize_html") /\ req[q].input # "" /\ resp[q].val = req[q].input

\* the outcome of a range validator: accepted exactly inside the interval,
\* InvalidRange outside
RangeOutcome(p, inside) ==
    /\ resp[p].ok <=> inside
    /\ ~inside => resp[p].err = "InvalidRange"
    /\ inside => resp[p].err = ""

\* C22: validate_motion_level accepts exactly 0..100, validate_sound_level
\* exactly 0..1023, validate_time_range_minutes exactly 1..10080 and
\* validate_limit exactly the limits with 0 < limit <= max_limit, for which it
\* returns the limit; every other value fails as InvalidRange
C22_RangesExact ==
    \A p \in Procs :
        LET v == req[p].input IN
        /\ Done(p, "validate_motion_level") => RangeOutcome(p, v \in 0..100)
        /\ Done(p, "validate_sound_level") => RangeOutcome(p, v \in 0..1023)
        /\ Done(p, "validate_time_range_minutes") => RangeOutcome(p, v > 0 /\ v <= 10080)
        /\ Done(p, "validate_limit") =>
            /\ RangeOutcome(p, 0 < v /\ v <= req[p].max_limit)
            /\ resp[p].ok => resp[p].val = v

\* a range of 10080 minutes was accepted and one of 0 minutes rejected
C22_Witness ==
    \E p, q \in Procs :
        /\ Done(p, "validate_time_range_minutes") /\ req[p].input = 10080 /\ resp[p].ok
        /\ Done(q, "validate_time_range_minutes") /\ req[q].input = 0
        /\ resp[q].err = "InvalidRange"

-----------------------------------------------------------------------------
(* Properties of the process-wide configuration (SpecConfig) *)

\* the closure of a cell runs in one thread at a time and only while the cell
\* is empty; a token in a login response is signed with the value of
\* JWT_SECRET and expires TOKEN_EXPIRATION_HOURS after its iat; a token
\* verify_handler accepted is signed with the value of JWT_SECRET
C25_OneConfiguration ==
    /\ \A cell \in LazyCells :
        /\ Cardinality({p \in Procs : pc[p] = "lazy_init" /\ local[p].cell = cell}) <= 1
        /\ Running(cell) => ~Cell(cell).init
    /\ \A p \in Procs : (Done(p, "login") /\ HasToken(p)) =>
        /\ JWT_SECRET.init /\ resp[p].body.token.key = JWT_SECRET.val
        /\ TOKEN_EXPIRATION_HOURS.init
        /\ resp[p].body.token.claims.exp - resp[p].body.token.claims.iat
                = TOKEN_EXPIRATION_HOURS.val * SecondsPerHour
    /\ \A p \in Procs : (Done(p, "verify") /\ resp[p].status = 200) =>
        /\ JWT_SECRET.init /\ req[p].header.token.key = JWT_SECRET.val
    /\ \A p, q \in Procs :
        (Done(p, "login") /\ HasToken(p) /\ Done(q, "login") /\ HasToken(q))
        => /\ resp[p].body.token.key = resp[q].body.token.key
           /\ resp[p].body.token.claims.exp = resp[q].body.token.claims.exp

\* a cell that holds a value keeps it in every step, also in a step that
\* changes the environment; a cell gets its value from the environment as it
\* was when its closure ran
C25_CellStep ==
    \A cell \in LazyCells :
        /\ Cell(cell).init => Cell(cell)' = Cell(cell)
        /\ (~Cell(cell).init /\ Cell(cell)'.init) =>
                \/ Cell(cell)'.val = Closure(cell, env)
                \/ \E p \in Procs : pc[p] = "lazy_init" /\ local[p].cell = cell
                                        /\ Cell(cell)'.val = local[p].val

\* C25: JWT_SECRET and TOKEN_EXPIRATION_HOURS are resolved once per process,
\* also when threads race for the first use, and keep their values whatever
\* happens to the environment afterwards: every token issued and every token
\* accepted in the process is signed with the one secret, and every token
\* issued has the one validity window
C25_ResolvedOnce == []C25_OneConfiguration /\ [][C25_CellStep]_vars

\* after both cells were resolved the environment was changed in both
\* variables; a login was then answered with a token signed with the secret
\* of the cell and carrying the window of the cell, and verify_handler
\* accepted this token
C25_Witness ==
    \E p, q \in Procs :
        /\ JWT_SECRET.init /\ JWT_SECRET.val # ResolveSecret(env)
        /\ TOKEN_EXPIRATION_HOURS.init /\ TOKEN_EXPIRATION_HOURS.val # ResolveHours(env)
        /\ Done(p, "login") /\ HasToken(p)
        /\ resp[p].body.token.key = JWT_SECRET.val
        /\ Done(q, "verify") /\ resp[q].status = 200
        /\ req[q].header.token = resp[p].body.token

====
